---- MODULE Spec2Model ----
(***************************************************************************)
(* Model of the marketplace helper wrappers                                *)
(* (src/marketplace-contract/marketplace.js, src/util/client.js).          *)
(*                                                                         *)
(* Each wrapper is an async function; an invocation advances from one      *)
(* await to the next.  The external collaborators (the wallet connection   *)
(* of Client(), queryContractSmart, getAccounts, execute, FromAtto) are    *)
(* the environment: each call either succeeds or throws, chosen            *)
(* nondeterministically.  Every call an invocation makes is recorded in    *)
(* calls[p] (history of the invocation in slot p).                         *)
(***************************************************************************)
EXTENDS Integers, Sequences, FiniteSets, TLC

\* ------------------------------------------------------------------ bounds
\* Largest magnitude of a numeric argument (prices, range bounds, limits).
MaxNum == 2

\* Invocation slots.  Spec runs one invocation at a time in slot "a".
Procs == {"a", "b"}
MainProcs == {"a"}

\* ------------------------------------------------------------ JS values
\* A JavaScript value is a tagged record.  A string is a sequence of
\* one-character strings, so that String() and coin() work on characters.
Undef == [t |-> "undefined"]
Null == [t |-> "null"]
Num(n) == [t |-> "number", n |-> n]
Str(s) == [t |-> "string", s |-> s]
Bool(b) == [t |-> "boolean", b |-> b]
\* An object: f is a function from field names to JS values.
Obj(f) == [t |-> "object", f |-> f]
\* An Error thrown by a collaborator; s is its message.
Err(s) == [t |-> "error", s |-> s]

EmptyObj == Obj([k \in {} |-> Undef])

\* JS truthiness, as used by `if (x)` and `!x`.
Truthy(v) ==
  CASE v.t = "undefined" -> FALSE
    [] v.t = "null" -> FALSE
    [] v.t = "number" -> v.n # 0
    [] v.t = "string" -> v.s # << >>
    [] v.t = "boolean" -> v.b
    [] OTHER -> TRUE

\* Property access o.k on an object: undefined when the field is missing.
Get(o, k) == IF o.t = "object" /\ k \in DOMAIN o.f THEN o.f[k] ELSE Undef

\* A default parameter `x = d`: d replaces undefined only (null is kept).
Default(v, d) == IF v.t = "undefined" THEN d ELSE v

Digits == <<"0", "1", "2", "3", "4", "5", "6", "7", "8", "9">>
DigitChars == {Digits[i] : i \in 1..10}

RECURSIVE NatToStr(_)
NatToStr(n) ==
  IF n < 10 THEN <<Digits[n + 1]>> ELSE NatToStr(n \div 10) \o <<Digits[(n % 10) + 1]>>

\* String(v) of JavaScript.
String(v) ==
  CASE v.t = "undefined" -> <<"u", "n", "d", "e", "f", "i", "n", "e", "d">>
    [] v.t = "null" -> <<"n", "u", "l", "l">>
    [] v.t = "number" -> IF v.n < 0 THEN <<"-">> \o NatToStr(-v.n) ELSE NatToStr(v.n)
    [] v.t = "string" -> v.s
    [] v.t = "boolean" -> IF v.b THEN <<"t", "r", "u", "e">> ELSE <<"f", "a", "l", "s", "e">>
    [] v.t = "error" -> <<"E", "r", "r", "o", "r", ":", " ">> \o v.s
    [] OTHER -> <<"[", "o", "b", "j", "e", "c", "t", "]">>

\* amount.match(/^[0-9]+$/)
IsUintString(s) == Len(s) > 0 /\ \A i \in 1..Len(s) : s[i] \in DigitChars

RECURSIVE StripZeros(_)
StripZeros(s) == IF s # << >> /\ Head(s) = "0" THEN StripZeros(Tail(s)) ELSE s

\* coin(amount, denom) of @cosmjs, for a string amount: throws unless the
\* amount is an unsigned integer string; strips leading zeros.
coin(amount, denom) ==
  IF IsUintString(amount)
    THEN [ok |-> TRUE,
          amount |-> IF StripZeros(amount) = << >> THEN <<"0">> ELSE StripZeros(amount),
          denom |-> denom]
    ELSE [ok |-> FALSE, amount |-> << >>, denom |-> denom]

\* --------------------------------------------------------------- constants
MARKETPLACE_CONTRACT == "marketplace"
SALE == <<"S", "a", "l", "e">>
OFFER == <<"O", "f", "f", "e", "r">>


\* ----------------------------------------------------------- entry points
\* A message is a record with one field, the entry point, whose value is a
\* function from field names to JS values (a field that is not set is not
\* in its domain).
NoFields == [k \in {} |-> Undef]
Field(k, v) == k :> v
\* `if (c) entrypoint.x.k = v`
Opt(c, k, v) == IF c THEN Field(k, v) ELSE NoFields

ConfigEntrypoint == [config |-> NoFields]

ListEntrypoint(start, limit) ==
  [list |-> Opt(Truthy(start), "start_after", start) @@ Opt(Truthy(limit), "limit", limit)]

DetailsEntrypoint(id) == [details |-> [id |-> id]]

SwapsOfEntrypoint(address, type, page, limit) ==
  [swaps_of |-> [address |-> address, swap_type |-> type, page |-> page, limit |-> limit]]

GetTotalEntrypoint(swap_type) == [get_total |-> [swap_type |-> swap_type]]

GetOffersEntrypoint(page, limit) == [get_offers |-> [page |-> page, limit |-> limit]]

GetListingsEntrypoint(page, limit) == [get_listings |-> [page |-> page, limit |-> limit]]

ListingsOfTokenEntrypoint(token_id, cw721, type, page, limit) ==
  [listings_of_token |->
     [token_id |-> token_id, cw721 |-> cw721, page |-> page, limit |-> limit]
       @@ Opt(Truthy(type), "swap_type", type)]

SwapsByPriceMin(min) == Opt(Truthy(min), "min", Str(String(min)))
SwapsByPriceMax(max) == Opt(Truthy(max), "max", Str(String(max)))

SwapsByPriceEntrypoint(min, max, type, page, limit) ==
  [swaps_by_price |->
     [swap_type |-> type, page |-> page, limit |-> limit]
       @@ SwapsByPriceMin(min) @@ SwapsByPriceMax(max)]

SwapsByDenomEntrypoint(payment_token, type, page, limit) ==
  [swaps_by_denom |->
     [swap_type |-> type, page |-> page, limit |-> limit]
       @@ Opt(Truthy(payment_token), "payment_token", payment_token)]

SwapsByPaymentTypeEntrypoint(cw20, type, page, limit) ==
  [swaps_by_payment_type |->
     [cw20 |-> cw20, swap_type |-> type, page |-> page, limit |-> limit]]

\* Mutant of CreateNativeEntrypoint: the swap type is hard-wired to 'Sale'.
CreateNativeEntrypoint_AlwaysSale(id, token_id, expiration, cost, swap_type) ==
  [create |->
     [id |-> id, payment_token |-> Null, token_id |-> token_id,
      expires |-> Obj([at_time |-> Str(String(expiration))]),
      price |-> Str(cost), swap_type |-> Str(SALE)]]

\* cost is the amount of coin(String(price), denom).
CreateNativeEntrypoint(id, token_id, expiration, cost, swap_type) ==
  [create |->
     [id |-> id, payment_token |-> Null, token_id |-> token_id,
      expires |-> Obj([at_time |-> Str(String(expiration))]),
      price |-> Str(cost), swap_type |-> swap_type]]

FinishNativeEntrypoint(id, swap) ==
  [finish |->
     [id |-> id, payment_token |-> Null, token_id |-> Get(swap, "token_id"),
      expires |-> Get(swap, "expires"), price |-> Get(swap, "price"),
      swap_type |-> Get(swap, "swap_type")]]

\* Mutant of FinishNativeFunds: the swap type is not looked at.
FinishNativeFunds_AnyType(swap, denom) ==
  LET c == coin(String(Get(swap, "price")), denom)
  IN  [ok |-> c.ok, funds |-> IF c.ok THEN <<[amount |-> c.amount, denom |-> c.denom]>> ELSE << >>]

\* FinishNative's purchase cost (`let funds = ...`); ok is FALSE when coin() throws.
FinishNativeFunds(swap, denom) ==
  IF Get(swap, "swap_type") = Str(SALE)
    THEN LET c == coin(String(Get(swap, "price")), denom)
         IN  [ok |-> c.ok, funds |-> IF c.ok THEN <<[amount |-> c.amount, denom |-> c.denom]>> ELSE << >>]
    ELSE [ok |-> TRUE, funds |-> << >>]

CreateCw20Entrypoint(id, cw20_contract, token_id, expiration, price, swap_type) ==
  [create |->
     [id |-> id, payment_token |-> cw20_contract, token_id |-> token_id,
      expires |-> Obj([at_time |-> expiration]),
      price |-> Str(String(price)), swap_type |-> swap_type]]

FinishCw20Entrypoint(id, swap) ==
  [finish |->
     [id |-> id, payment_token |-> Get(swap, "payment_token"),
      token_id |-> Get(swap, "token_id"), expires |-> Get(swap, "expires"),
      price |-> Get(swap, "price"), swap_type |-> Get(swap, "swap_type")]]

CancelEntrypoint(id) == [cancel |-> [id |-> id]]

UpdateEntrypoint(id, expiration, cost) ==
  [update |->
     [id |-> id, expires |-> Obj([at_time |-> Str(String(expiration))]),
      price |-> Str(cost)]]


\* ------------------------------------------------------------ environment
\* Default parameter values of the paginated wrappers.
DEFAULT_PAGE == 0
DEFAULT_LIMIT == 10

\* A client passed in by the caller, and the one Client() builds
\* (src/util/client.js: Blockchain.currencies[0].coinMinimalDenom).
SuppliedClient ==
  [t |-> "client", name |-> "supplied", fees |-> "fees_supplied", coinMinimalDenom |-> "aconst"]
KeplrClient ==
  [t |-> "client", name |-> "keplr", fees |-> "fees_keplr", coinMinimalDenom |-> "aarch"]

Ids == {Str(<<"s", "1">>), Str(<<"s", "2">>)}
TokenIds == {Str(<<"7">>)}
Address == Str(<<"a", "d", "d", "r">>)
Cw721Addr == Str(<<"n", "f", "t">>)
Cw20Addr == Str(<<"c", "w">>)
Nums == {Num(n) : n \in (-1)..MaxNum}

ClientArgs == {Undef, SuppliedClient}
TypeArgs == {Undef, Str(SALE), Str(OFFER)}
FilterArgs == {Undef, Null, Str(SALE), Str(OFFER)}
PageArgs == {Undef, Num(1)}
LimitArgs == {Undef, Num(MaxNum)}
RangeArgs == {Undef, Null} \cup Nums
PriceArgs == {Undef, Str(<<"0", "2">>)} \cup Nums
ExpirationArgs == {Undef, Num(1)}

\* A swap details object, as returned by the Details query.
Swap(payment_token, price, swap_type) ==
  Obj([creator |-> Address, contract |-> Cw721Addr, payment_token |-> payment_token,
       token_id |-> Str(<<"7">>), expires |-> Obj([at_time |-> Str(<<"9">>)]),
       price |-> price, swap_type |-> Str(swap_type)])

\* What the contract answers to a Details query: prices are Uint128 strings.
DetailsReplies ==
  {Swap(pt, Str(NatToStr(MaxNum)), ty) : pt \in {Null, Cw20Addr}, ty \in {SALE, OFFER}}
\* What a caller may pass as `swap`: nothing, or a details object (possibly
\* one assembled by hand, with a numeric or zero-padded price).
SwapArgs ==
  {Undef} \cup
  {Swap(pt, pr, ty) : pt \in {Null, Cw20Addr},
                      pr \in {Str(<<"0", "2">>), Num(1), Num(-1)},
                      ty \in {SALE, OFFER}}

ConfigArgs == {[client |-> c] : c \in ClientArgs}
ListArgs ==
  {[start |-> s, limit |-> l, client |-> c] :
     s \in {Undef, Str(<< >>), Str(<<"s", "1">>)}, l \in {Undef, Num(0), Num(MaxNum)},
     c \in ClientArgs}
DetailsArgs == {[id |-> i, client |-> c] : i \in Ids, c \in ClientArgs}
SwapsOfArgs ==
  {[address |-> Address, type |-> ty, page |-> pg, limit |-> Undef, client |-> c] :
     ty \in TypeArgs, pg \in PageArgs, c \in ClientArgs}
GetTotalArgs == {[swap_type |-> ty, client |-> c] : ty \in FilterArgs, c \in ClientArgs}
GetOffersArgs ==
  {[page |-> pg, limit |-> l, client |-> c] : pg \in PageArgs, l \in LimitArgs, c \in ClientArgs}
GetListingsArgs == GetOffersArgs
ListingsOfTokenArgs ==
  {[token_id |-> tk, cw721 |-> Cw721Addr, type |-> ty, page |-> Undef, limit |-> Undef,
    client |-> c] : tk \in TokenIds, ty \in FilterArgs, c \in ClientArgs}
SwapsByPriceArgs ==
  {[min |-> mn, max |-> mx, type |-> ty, page |-> Undef, limit |-> Undef, client |-> c] :
     mn \in RangeArgs, mx \in RangeArgs, ty \in {Undef, Str(OFFER)}, c \in ClientArgs}
SwapsByDenomArgs ==
  {[payment_token |-> pt, type |-> ty, page |-> Undef, limit |-> Undef, client |-> c] :
     pt \in {Undef, Null, Cw20Addr}, ty \in TypeArgs, c \in ClientArgs}
SwapsByPaymentTypeArgs ==
  {[cw20 |-> b, type |-> ty, page |-> Undef, limit |-> Undef, client |-> c] :
     b \in {Undef, Bool(TRUE), Bool(FALSE)}, ty \in TypeArgs, c \in ClientArgs}
CreateNativeArgs ==
  {[id |-> i, token_id |-> tk, expiration |-> ex, price |-> pr, swap_type |-> ty,
    client |-> c] :
     i \in Ids, tk \in TokenIds, ex \in ExpirationArgs, pr \in PriceArgs, ty \in TypeArgs,
     c \in ClientArgs}
CreateCw20Args ==
  {[id |-> i, cw20_contract |-> Cw20Addr, token_id |-> tk, expiration |-> ex, price |-> pr,
    denom |-> Undef, swap_type |-> ty, client |-> c] :
     i \in Ids, tk \in TokenIds, ex \in ExpirationArgs, pr \in PriceArgs, ty \in TypeArgs,
     c \in ClientArgs}
FinishNativeArgs == {[id |-> i, swap |-> sw, client |-> c] : i \in Ids, sw \in SwapArgs, c \in ClientArgs}
FinishCw20Args ==
  {[id |-> i, swap |-> sw, denom |-> Undef, client |-> c] :
     i \in Ids, sw \in SwapArgs, c \in ClientArgs}
CancelArgs == {[id |-> i, client |-> c] : i \in Ids, c \in ClientArgs}
UpdateArgs ==
  {[id |-> i, expiration |-> ex, price |-> pr, client |-> c] :
     i \in Ids, ex \in ExpirationArgs, pr \in PriceArgs, c \in ClientArgs}

\* The exported Query and Execute objects.
Query ==
  {"Config", "List", "Details", "SwapsOf", "GetTotal", "GetOffers", "GetListings",
   "ListingsOfToken", "SwapsByPrice", "SwapsByDenom", "SwapsByPaymentType"}
Execute == {"CreateNative", "CreateCw20", "FinishNative", "FinishCw20", "Cancel", "Update"}
Finish == {"FinishNative", "FinishCw20"}


\* ------------------------------------------------------------------ state
VARIABLES
  fn,        \* fn[p]: the wrapper running in slot p, "none" when idle
  args,      \* args[p]: the arguments the caller passed
  pc,        \* pc[p]: the await the invocation is at
  client,    \* client[p]: the wrapper's `client` variable
  inner,     \* inner[p]: the `client` variable of the Details call made by Finish*
  swap,      \* swap[p]: the `swap` variable of Finish*
  accounts,  \* accounts[p]: the `accounts` array (a sequence of addresses)
  calls,     \* calls[p]: the calls made to collaborators so far, in order
  result     \* result[p]: pending, returned (a value) or threw (rejected)

vars == <<fn, args, pc, client, inner, swap, accounts, calls, result>>

Pending == [kind |-> "pending", val |-> Undef]
Returned(v) == [kind |-> "returned", val |-> v]
Threw(e) == [kind |-> "threw", val |-> e]

TxReply == Obj([transactionHash |-> Str(<<"h">>)])
QueryReply == Obj([data |-> Str(<<"o", "k">>)])
QueryReplies(f) == IF f = "Details" THEN DetailsReplies ELSE {QueryReply}
AccountLists == {<< >>, <<"acct1">>, <<"acct1", "acct2">>, <<"acct2", "acct1">>}

Init ==
  /\ fn = [p \in Procs |-> "none"]
  /\ args = [p \in Procs |-> NoFields]
  /\ pc = [p \in Procs |-> "idle"]
  /\ client = [p \in Procs |-> Null]
  /\ inner = [p \in Procs |-> Null]
  /\ swap = [p \in Procs |-> Undef]
  /\ accounts = [p \in Procs |-> << >>]
  /\ calls = [p \in Procs |-> << >>]
  /\ result = [p \in Procs |-> Pending]

\* The entry point a Query wrapper builds from its parameters (defaults applied).
QueryEntrypoint(f, a) ==
  CASE f = "Config" -> ConfigEntrypoint
    [] f = "List" -> ListEntrypoint(a.start, a.limit)
    [] f = "Details" -> DetailsEntrypoint(Default(a.id, Null))
    [] f = "SwapsOf" ->
         SwapsOfEntrypoint(Default(a.address, Null), Default(a.type, Str(SALE)),
                           Default(a.page, Num(DEFAULT_PAGE)), Default(a.limit, Num(DEFAULT_LIMIT)))
    [] f = "GetTotal" -> GetTotalEntrypoint(Default(a.swap_type, Str(SALE)))
    [] f = "GetOffers" ->
         GetOffersEntrypoint(Default(a.page, Num(DEFAULT_PAGE)), Default(a.limit, Num(DEFAULT_LIMIT)))
    [] f = "GetListings" ->
         GetListingsEntrypoint(Default(a.page, Num(DEFAULT_PAGE)), Default(a.limit, Num(DEFAULT_LIMIT)))
    [] f = "ListingsOfToken" ->
         ListingsOfTokenEntrypoint(Default(a.token_id, Null), Default(a.cw721, Null),
                                   Default(a.type, Null), Default(a.page, Num(DEFAULT_PAGE)),
                                   Default(a.limit, Num(DEFAULT_LIMIT)))
    [] f = "SwapsByPrice" ->
         SwapsByPriceEntrypoint(Default(a.min, Null), Default(a.max, Null),
                                Default(a.type, Str(SALE)), Default(a.page, Num(DEFAULT_PAGE)),
                                Default(a.limit, Num(DEFAULT_LIMIT)))
    [] f = "SwapsByDenom" ->
         SwapsByDenomEntrypoint(Default(a.payment_token, Null), Default(a.type, Str(SALE)),
                                Default(a.page, Num(DEFAULT_PAGE)), Default(a.limit, Num(DEFAULT_LIMIT)))
    [] f = "SwapsByPaymentType" ->
         SwapsByPaymentTypeEntrypoint(Default(a.cw20, Bool(FALSE)), Default(a.type, Str(SALE)),
                                      Default(a.page, Num(DEFAULT_PAGE)),
                                      Default(a.limit, Num(DEFAULT_LIMIT)))

\* What a Query wrapper's catch block returns for the error e.
QueryCatch(f, e) == IF f \in {"Config", "List"} THEN EmptyObj ELSE Obj([error |-> e])

\* CreateNative and Update convert the price before their try block.
CostFns == {"CreateNative", "Update"}
cost(a, c) == coin(String(a.price), c.coinMinimalDenom)

\* The entry point an Execute wrapper builds.
ExecuteEntrypoint(f, a, sw, c) ==
  CASE f = "CreateNative" ->
         CreateNativeEntrypoint(a.id, a.token_id, a.expiration, cost(a, c).amount,
                                Default(a.swap_type, Str(SALE)))
    [] f = "CreateCw20" ->
         CreateCw20Entrypoint(a.id, a.cw20_contract, a.token_id, a.expiration, a.price,
                              Default(a.swap_type, Str(SALE)))
    [] f = "FinishNative" -> FinishNativeEntrypoint(a.id, sw)
    [] f = "FinishCw20" -> FinishCw20Entrypoint(a.id, sw)
    [] f = "Cancel" -> CancelEntrypoint(a.id)
    [] f = "Update" -> UpdateEntrypoint(a.id, a.expiration, cost(a, c).amount)

\* The funds argument of execute: only FinishNative passes one.
ExecuteFunds(f, sw, c) ==
  IF f = "FinishNative" THEN FinishNativeFunds(sw, c.coinMinimalDenom)
  ELSE [ok |-> TRUE, funds |-> << >>]

\* The wrappers whose memo is built with FromAtto (imported from ../util/denom).
FromAttoFns == {"CreateNative", "FinishNative", "CreateCw20"}

\* Where a wrapper first awaits: Finish* without a swap calls Details, which
\* builds a client of its own when none was passed.
EntryPc(f, a) ==
  LET c == Default(a.client, Null)
  IN  IF f \in Finish /\ ~Truthy(a.swap)
        THEN IF Truthy(c) THEN "details_query" ELSE "details_client"
        ELSE IF ~Truthy(c) THEN "client"
        ELSE IF f \in Query THEN "query" ELSE "accounts"

\* Mutant of AfterClient: a Query wrapper goes on to fetch the signer's accounts.
AfterClient_Accounts(f) == "accounts"

\* After `if (!client) client = await Client();`
AfterClient(f) == IF f \in Query THEN "query" ELSE "accounts"

\* Mutant of AfterQuery: a failed query is issued again.
AfterQuery_Retry(ok) == IF ok THEN "done" ELSE "query"

\* After queryContractSmart the wrapper returns: the reply, or from its catch block.
AfterQuery(ok) == "done"

Start(p, f, a) ==
  /\ pc[p] = "idle"
  /\ fn' = [fn EXCEPT ![p] = f]
  /\ args' = [args EXCEPT ![p] = a]
  /\ client' = [client EXCEPT ![p] = Default(a.client, Null)]
  /\ swap' = [swap EXCEPT ![p] = IF f \in Finish THEN a.swap ELSE Undef]
  /\ pc' = [pc EXCEPT ![p] = EntryPc(f, a)]
  /\ UNCHANGED <<inner, accounts, calls, result>>

Config(p) == \E a \in ConfigArgs : Start(p, "Config", a)
List(p) == \E a \in ListArgs : Start(p, "List", a)
Details(p) == \E a \in DetailsArgs : Start(p, "Details", a)
SwapsOf(p) == \E a \in SwapsOfArgs : Start(p, "SwapsOf", a)
GetTotal(p) == \E a \in GetTotalArgs : Start(p, "GetTotal", a)
GetOffers(p) == \E a \in GetOffersArgs : Start(p, "GetOffers", a)
GetListings(p) == \E a \in GetListingsArgs : Start(p, "GetListings", a)
ListingsOfToken(p) == \E a \in ListingsOfTokenArgs : Start(p, "ListingsOfToken", a)
SwapsByPrice(p) == \E a \in SwapsByPriceArgs : Start(p, "SwapsByPrice", a)
SwapsByDenom(p) == \E a \in SwapsByDenomArgs : Start(p, "SwapsByDenom", a)
SwapsByPaymentType(p) == \E a \in SwapsByPaymentTypeArgs : Start(p, "SwapsByPaymentType", a)
CreateNative(p) == \E a \in CreateNativeArgs : Start(p, "CreateNative", a)
CreateCw20(p) == \E a \in CreateCw20Args : Start(p, "CreateCw20", a)
FinishNative(p) == \E a \in FinishNativeArgs : Start(p, "FinishNative", a)
FinishCw20(p) == \E a \in FinishCw20Args : Start(p, "FinishCw20", a)
Cancel(p) == \E a \in CancelArgs : Start(p, "Cancel", a)
Update(p) == \E a \in UpdateArgs : Start(p, "Update", a)

\* Mutant of ClientFor: the client is kept in a variable of the module, so
\* an invocation picks up the client another invocation holds.
ClientFor_Shared(p) ==
  IF \E q \in Procs \ {p} : Truthy(client[q])
    THEN client[CHOOSE q \in Procs \ {p} : Truthy(client[q])]
    ELSE client[p]

\* The `client` a wrapper calls through: its own parameter, local to the
\* invocation.
ClientFor(p) == client[p]

\* `if (!client) client = await Client();` (outside every try block): the
\* wallet connection of Client() succeeds or rejects.
Client(p) ==
  /\ pc[p] = "client"
  /\ \E ok \in BOOLEAN :
       /\ calls' = [calls EXCEPT ![p] = Append(@, [op |-> "Client", ok |-> ok])]
       /\ IF ok
            THEN /\ client' = [client EXCEPT ![p] = KeplrClient]
                 /\ pc' = [pc EXCEPT ![p] = AfterClient(fn[p])]
                 /\ UNCHANGED result
            ELSE /\ result' = [result EXCEPT ![p] = Threw(Err(<<"c">>))]
                 /\ pc' = [pc EXCEPT ![p] = "done"]
                 /\ UNCHANGED client
  /\ UNCHANGED <<fn, args, inner, swap, accounts>>

\* The body of a Query wrapper: build the entry point, queryContractSmart,
\* return the reply; the catch block returns QueryCatch.
QueryContractSmart(p) ==
  /\ pc[p] = "query"
  /\ \E ok \in BOOLEAN :
       /\ calls' = [calls EXCEPT ![p] =
             Append(@, [op |-> "queryContractSmart", via |-> ClientFor(p).name,
                        contract |-> MARKETPLACE_CONTRACT,
                        msg |-> QueryEntrypoint(fn[p], args[p]), ok |-> ok])]
       /\ pc' = [pc EXCEPT ![p] = AfterQuery(ok)]
       /\ IF ok
            THEN \E r \in QueryReplies(fn[p]) : result' = [result EXCEPT ![p] = Returned(r)]
            ELSE IF AfterQuery(ok) = "done"
              THEN result' = [result EXCEPT ![p] = Returned(QueryCatch(fn[p], Err(<<"q">>)))]
              ELSE UNCHANGED result
  /\ UNCHANGED <<fn, args, client, inner, swap, accounts>>

\* Finish*: `if (!swap) swap = await Details(id, client);` with no client:
\* Details builds its own client; a rejection propagates out of Finish*.
DetailsClient(p) ==
  /\ pc[p] = "details_client"
  /\ \E ok \in BOOLEAN :
       /\ calls' = [calls EXCEPT ![p] = Append(@, [op |-> "Client", ok |-> ok])]
       /\ IF ok
            THEN /\ inner' = [inner EXCEPT ![p] = KeplrClient]
                 /\ pc' = [pc EXCEPT ![p] = "details_query"]
                 /\ UNCHANGED result
            ELSE /\ result' = [result EXCEPT ![p] = Threw(Err(<<"c">>))]
                 /\ pc' = [pc EXCEPT ![p] = "done"]
                 /\ UNCHANGED inner
  /\ UNCHANGED <<fn, args, client, swap, accounts>>

\* Finish*: the Details query; its reply, or {error: e}, becomes `swap`.
DetailsQuery(p) ==
  /\ pc[p] = "details_query"
  /\ LET c == IF Truthy(client[p]) THEN client[p] ELSE inner[p]
     IN  \E ok \in BOOLEAN :
           /\ calls' = [calls EXCEPT ![p] =
                 Append(@, [op |-> "queryContractSmart", via |-> c.name,
                            contract |-> MARKETPLACE_CONTRACT,
                            msg |-> QueryEntrypoint("Details", args[p]), ok |-> ok])]
           /\ IF ok
                THEN \E r \in DetailsReplies : swap' = [swap EXCEPT ![p] = r]
                ELSE swap' = [swap EXCEPT ![p] = QueryCatch("Details", Err(<<"q">>))]
  /\ pc' = [pc EXCEPT ![p] = IF Truthy(client[p]) THEN "accounts" ELSE "client"]
  /\ UNCHANGED <<fn, args, client, inner, accounts, result>>

\* An Execute wrapper up to `await client.offlineSigner.getAccounts()`.
\* CreateNative and Update call coin() first, outside the try block.
GetAccounts(p) ==
  /\ pc[p] = "accounts"
  /\ IF fn[p] \in CostFns /\ ~cost(args[p], client[p]).ok
       THEN /\ result' = [result EXCEPT ![p] = Threw(Err(<<"n">>))]
            /\ pc' = [pc EXCEPT ![p] = "done"]
            /\ UNCHANGED <<accounts, calls>>
       ELSE \E ok \in BOOLEAN :
              /\ calls' = [calls EXCEPT ![p] =
                    Append(@, [op |-> "getAccounts", via |-> ClientFor(p).name, ok |-> ok])]
              /\ IF ok
                   THEN /\ \E as \in AccountLists : accounts' = [accounts EXCEPT ![p] = as]
                        /\ pc' = [pc EXCEPT ![p] = "execute"]
                        /\ UNCHANGED result
                   ELSE /\ result' = [result EXCEPT ![p] =
                              Returned(Obj([error |-> Str(String(Err(<<"a">>)))]))]
                        /\ pc' = [pc EXCEPT ![p] = "done"]
                        /\ UNCHANGED accounts
  /\ UNCHANGED <<fn, args, client, inner, swap>>

\* Mutant of Sender: the last account signs instead of the first.
Sender_Last(as) == as[Len(as)]

\* accounts[0].address, the sender of the broadcast.
Sender(as) == as[1]

\* The rest of the try block: the funds (FinishNative), accounts[0].address,
\* the memo, the broadcast.  Whatever throws here is caught and returned as
\* {error: String(e)}.
ExecuteTx(p) ==
  /\ pc[p] = "execute"
  /\ LET f == fn[p]
         fu == ExecuteFunds(f, swap[p], client[p])
     IN  \E memo \in (IF f \in FromAttoFns THEN BOOLEAN ELSE {TRUE}), ok \in BOOLEAN :
           IF ~fu.ok \/ accounts[p] = << >> \/ ~memo
             THEN /\ result' = [result EXCEPT ![p] =
                        Returned(Obj([error |-> Str(String(Err(<<"t">>)))]))]
                  /\ UNCHANGED calls
             ELSE /\ calls' = [calls EXCEPT ![p] =
                        Append(@, [op |-> "execute", via |-> ClientFor(p).name,
                                   sender |-> Sender(accounts[p]),
                                   contract |-> MARKETPLACE_CONTRACT,
                                   msg |-> ExecuteEntrypoint(f, args[p], swap[p], client[p]),
                                   fee |-> ClientFor(p).fees, funds |-> fu.funds, ok |-> ok])]
                  /\ result' = [result EXCEPT ![p] =
                        IF ok THEN Returned(TxReply)
                        ELSE Returned(Obj([error |-> Str(String(Err(<<"x">>)))]))]
  /\ pc' = [pc EXCEPT ![p] = "done"]
  /\ UNCHANGED <<fn, args, client, inner, swap, accounts>>

\* The caller has the result; the slot is free for the next invocation.
\* Nothing of the finished invocation is kept.
Return(p) ==
  /\ pc[p] = "done"
  /\ fn' = [fn EXCEPT ![p] = "none"]
  /\ args' = [args EXCEPT ![p] = NoFields]
  /\ pc' = [pc EXCEPT ![p] = "idle"]
  /\ client' = [client EXCEPT ![p] = Null]
  /\ inner' = [inner EXCEPT ![p] = Null]
  /\ swap' = [swap EXCEPT ![p] = Undef]
  /\ accounts' = [accounts EXCEPT ![p] = << >>]
  /\ calls' = [calls EXCEPT ![p] = << >>]
  /\ result' = [result EXCEPT ![p] = Pending]

Step(p) ==
  \/ Config(p) \/ List(p) \/ Details(p) \/ SwapsOf(p) \/ GetTotal(p) \/ GetOffers(p)
  \/ GetListings(p) \/ ListingsOfToken(p) \/ SwapsByPrice(p) \/ SwapsByDenom(p)
  \/ SwapsByPaymentType(p)
  \/ CreateNative(p) \/ CreateCw20(p) \/ FinishNative(p) \/ FinishCw20(p)
  \/ Cancel(p) \/ Update(p)
  \/ Client(p) \/ QueryContractSmart(p) \/ DetailsClient(p) \/ DetailsQuery(p)
  \/ GetAccounts(p) \/ ExecuteTx(p) \/ Return(p)

Next == \E p \in MainProcs : Step(p)

Spec == Init /\ [][Next]_vars

\* Concurrent callers: both slots run, interleaved at every await.  The
\* calls are drawn from every wrapper's argument set, narrowed to the
\* arguments that tell two invocations apart.
ConcCalls ==
  {<<"Config", a>> : a \in ConfigArgs}
  \cup {<<"List", a>> : a \in {x \in ListArgs : x.limit = Undef /\ x.start # Str(<< >>)}}
  \cup {<<"Details", a>> : a \in DetailsArgs}
  \cup {<<"SwapsOf", a>> : a \in {x \in SwapsOfArgs : x.page = Undef /\ x.type # Undef}}
  \cup {<<"GetTotal", a>> : a \in {x \in GetTotalArgs : x.swap_type \in {Undef, Str(OFFER)}}}
  \cup {<<"GetOffers", a>> : a \in {x \in GetOffersArgs : x.limit = Undef}}
  \cup {<<"GetListings", a>> : a \in {x \in GetListingsArgs : x.limit = Undef}}
  \cup {<<"ListingsOfToken", a>> : a \in {x \in ListingsOfTokenArgs : x.type \in {Undef, Str(SALE)}}}
  \cup {<<"SwapsByPrice", a>> :
          a \in {x \in SwapsByPriceArgs : x.min \in {Undef, Num(1)} /\ x.max = Undef /\ x.type = Undef}}
  \cup {<<"SwapsByDenom", a>> : a \in {x \in SwapsByDenomArgs : x.payment_token # Null /\ x.type = Undef}}
  \cup {<<"SwapsByPaymentType", a>> :
          a \in {x \in SwapsByPaymentTypeArgs : x.cw20 # Undef /\ x.type = Undef}}
  \cup {<<"CreateNative", a>> :
          a \in {x \in CreateNativeArgs :
                   /\ x.id = Str(<<"s", "1">>) /\ x.expiration = Num(1)
                   /\ x.price = Num(1) /\ x.swap_type # Undef}}
  \cup {<<"CreateCw20", a>> :
          a \in {x \in CreateCw20Args :
                   /\ x.id = Str(<<"s", "1">>) /\ x.expiration = Num(1)
                   /\ x.price = Num(1) /\ x.swap_type = Str(OFFER)}}
  \cup {<<"FinishNative", a>> :
          a \in {x \in FinishNativeArgs :
                   x.id = Str(<<"s", "2">>) /\ x.swap \in {Undef, Swap(Null, Num(1), SALE)}}}
  \cup {<<"FinishCw20", a>> :
          a \in {x \in FinishCw20Args :
                   x.id = Str(<<"s", "2">>) /\ x.swap = Swap(Cw20Addr, Num(1), OFFER)}}
  \cup {<<"Cancel", a>> : a \in CancelArgs}
  \cup {<<"Update", a>> :
          a \in {x \in UpdateArgs :
                   x.id = Str(<<"s", "1">>) /\ x.expiration = Num(1) /\ x.price = Num(1)}}

ConcStart(p) == \E c \in ConcCalls : Start(p, c[1], c[2])

NextConc ==
  \E p \in Procs :
    \/ ConcStart(p)
    \/ Client(p) \/ QueryContractSmart(p) \/ DetailsClient(p) \/ DetailsQuery(p)
    \/ GetAccounts(p) \/ ExecuteTx(p) \/ Return(p)

SpecConc == Init /\ [][NextConc]_vars


\* ----------------------------------------------------------------- claims
Last(q) == q[Len(q)]
CallsOf(p, op) == {i \in 1..Len(calls[p]) : calls[p][i].op = op}

\* A field reaches the contract when it is set and not undefined
\* (JSON serialisation drops undefined; null is sent).
Carries(fields, k) == k \in DOMAIN fields /\ fields[k].t # "undefined"

RECURSIVE DecVal(_)
DecVal(s) ==
  IF s = << >> THEN 0
  ELSE 10 * DecVal(SubSeq(s, 1, Len(s) - 1))
         + (CHOOSE d \in 0..9 : Digits[d + 1] = s[Len(s)])

\* The number a price argument denotes (a Number, or a decimal string).
PriceValue(v) == IF v.t = "number" THEN v.n ELSE DecVal(v.s)

\* C1 (as claimed): whenever a Query wrapper's queryContractSmart call has
\* failed, the wrapper returns (does not throw) a value that carries the error.
C1_QueryErrorPassedThrough ==
  \A p \in Procs :
    (/\ fn[p] \in Query
     /\ pc[p] = "done"
     /\ calls[p] # << >>
     /\ Last(calls[p]).op = "queryContractSmart"
     /\ ~Last(calls[p]).ok)
    => /\ result[p].kind = "returned"
       /\ "error" \in DOMAIN result[p].val.f

\* C2 (as claimed): an Execute wrapper that has finished has returned, never
\* thrown, and what it returned is the transaction result or an object with
\* an `error` field.
C2_ExecuteAlwaysReturns ==
  \A p \in Procs :
    (fn[p] \in Execute /\ pc[p] = "done")
    => /\ result[p].kind = "returned"
       /\ (result[p].val = TxReply \/ "error" \in DOMAIN result[p].val.f)

\* C3: an execute broadcast carries funds exactly when it is FinishNative's
\* broadcast for a swap of type 'Sale'; the funds are then one coin, in the
\* client's minimal denom, whose amount is the swap's price.  Every other
\* broadcast carries no funds.
C3_FundsOnlyForNativeSale ==
  \A p \in Procs : \A i \in CallsOf(p, "execute") :
    LET c == calls[p][i]
    IN  IF fn[p] = "FinishNative" /\ Get(swap[p], "swap_type") = Str(SALE)
          THEN /\ Len(c.funds) = 1
               /\ c.funds[1].denom = client[p].coinMinimalDenom
               /\ IsUintString(c.funds[1].amount)
               /\ DecVal(c.funds[1].amount) = PriceValue(Get(swap[p], "price"))
          ELSE c.funds = << >>

\* C3 witness: FinishNative has broadcast a 'Sale' swap with its funds.
C3_Witness ==
  \E i \in CallsOf("a", "execute") :
    /\ fn["a"] = "FinishNative"
    /\ Len(calls["a"][i].funds) = 1
    /\ calls["a"][i].msg.finish.swap_type = Str(SALE)

\* C4 (as claimed): one invocation issues at most one remote contract call
\* (queryContractSmart or execute).
C4_AtMostOneRemoteCall ==
  \A p \in Procs :
    Cardinality(CallsOf(p, "queryContractSmart") \cup CallsOf(p, "execute")) <= 1

\* C4 (amended): one invocation issues at most one queryContractSmart and at
\* most one execute, so no call is ever repeated; it issues both only when
\* it is FinishNative or FinishCw20 called without a swap, and then the
\* query is the Details query for the swap id and precedes the execute.
C4_OneShot ==
  \A p \in Procs :
    LET qs == CallsOf(p, "queryContractSmart")
        xs == CallsOf(p, "execute")
    IN  /\ Cardinality(qs) <= 1
        /\ Cardinality(xs) <= 1
        /\ (qs # {} /\ xs # {}) =>
             /\ fn[p] \in Finish
             /\ ~Truthy(args[p].swap)
             /\ \A i \in qs : \A j \in xs :
                  i < j /\ calls[p][i].msg = DetailsEntrypoint(args[p].id)

\* C4 witness: a Finish* call without a swap has queried Details and broadcast.
C4_Witness ==
  /\ fn["a"] \in Finish
  /\ CallsOf("a", "queryContractSmart") # {}
  /\ CallsOf("a", "execute") # {}

\* C5 (as claimed): GetTotal called without a type sends no Sale/Offer
\* filter; called with 'Sale' or 'Offer' it sends that type.
C5_GetTotalFilterOptional ==
  \A p \in Procs : \A i \in CallsOf(p, "queryContractSmart") :
    fn[p] = "GetTotal" =>
      LET m == calls[p][i].msg.get_total
          ty == args[p].swap_type
      IN  IF ty \in {Undef, Null}
            THEN ~Carries(m, "swap_type") \/ m.swap_type = Null
            ELSE Carries(m, "swap_type") /\ m.swap_type = ty

\* C6 (as claimed): every create and finish message broadcast carries all
\* seven fields of SwapMsg.
C6_CompleteSwapMsg ==
  \A p \in Procs : \A i \in CallsOf(p, "execute") :
    LET msg == calls[p][i].msg
    IN  \A e \in {"create", "finish"} \cap DOMAIN msg :
          \A k \in {"id", "cw721", "payment_token", "token_id", "expires", "price", "swap_type"} :
            Carries(msg[e], k)

C8_UpdateOneField ==
  \A p \in Procs :
    (/\ fn[p] = "Update"
     /\ (args[p].expiration = Undef) # (args[p].price = Undef)
     /\ args[p].price = Undef \/ IsUintString(String(args[p].price))
     /\ \A i \in 1..Len(calls[p]) : calls[p][i].ok)
    => /\ pc[p] = "done" => result[p].kind = "returned"
       /\ \A i \in CallsOf(p, "execute") :
            LET m == calls[p][i].msg.update
            IN  /\ args[p].expiration = Undef => ~Carries(m, "expires")
                /\ args[p].price = Undef => ~Carries(m, "price")

\* C9 (as claimed): the swaps_by_price message carries every supplied bound
\* (0 included) as its decimal string, and no bound that was not supplied.
C9_PriceRangeForwarded ==
  \A p \in Procs : \A i \in CallsOf(p, "queryContractSmart") :
    fn[p] = "SwapsByPrice" =>
      LET m == calls[p][i].msg.swaps_by_price
          a == args[p]
      IN  /\ IF a.min.t = "number"
               THEN "min" \in DOMAIN m /\ m.min = Str(String(a.min))
               ELSE ~Carries(m, "min")
          /\ IF a.max.t = "number"
               THEN "max" \in DOMAIN m /\ m.max = Str(String(a.max))
               ELSE ~Carries(m, "max")

\* C10 (as claimed): no swaps_by_price message carries a negative min.
C10_MinNotNegative ==
  \A p \in Procs : \A i \in CallsOf(p, "queryContractSmart") :
    fn[p] = "SwapsByPrice" =>
      LET m == calls[p][i].msg.swaps_by_price
      IN  Carries(m, "min") => Head(m.min.s) # "-"


\* An optional argument is given when it is neither undefined nor null.
Given(v) == v.t \notin {"undefined", "null"}

\* C11 (as claimed): an optional filter is in the message exactly when it
\* was given, with the value given; the other fields are always present.
C11_OptionalFiltersForwarded ==
  \A p \in Procs : \A i \in CallsOf(p, "queryContractSmart") :
    LET msg == calls[p][i].msg
        a == args[p]
        Sent(m, k, v) == IF Given(v) THEN k \in DOMAIN m /\ m[k] = v ELSE ~Carries(m, k)
    IN  /\ fn[p] = "List" =>
             /\ Sent(msg.list, "start_after", a.start)
             /\ Sent(msg.list, "limit", a.limit)
        /\ fn[p] = "ListingsOfToken" =>
             /\ Sent(msg.listings_of_token, "swap_type", a.type)
             /\ \A k \in {"token_id", "cw721", "page", "limit"} :
                  Carries(msg.listings_of_token, k)
        /\ fn[p] = "SwapsByDenom" =>
             /\ Sent(msg.swaps_by_denom, "payment_token", a.payment_token)
             /\ \A k \in {"swap_type", "page", "limit"} : Carries(msg.swaps_by_denom, k)


\* C12 (as claimed): an invocation that was passed a client never calls
\* Client(); one that was not calls Client() at most once, and exactly once
\* before any call it makes through a client.
C12_ClientBuiltOnce ==
  \A p \in Procs :
    fn[p] # "none" =>
      LET builds == CallsOf(p, "Client")
          uses == {i \in 1..Len(calls[p]) : calls[p][i].op # "Client"}
      IN  IF Truthy(args[p].client)
            THEN builds = {}
            ELSE /\ Cardinality(builds) <= 1
                 /\ uses # {} => Cardinality(builds) = 1


\* C13: the contract is reached only by queryContractSmart and execute, both
\* addressed to MARKETPLACE_CONTRACT.  A Query wrapper calls nothing but
\* Client() and queryContractSmart (no getAccounts, no execute); an Execute
\* wrapper's only queryContractSmart is the Details lookup Finish* makes
\* when it was passed no swap.
C13_ContractAccess ==
  \A p \in Procs : \A i \in 1..Len(calls[p]) :
    LET c == calls[p][i]
    IN  /\ c.op \in {"Client", "queryContractSmart", "getAccounts", "execute"}
        /\ c.op \in {"queryContractSmart", "execute"} => c.contract = MARKETPLACE_CONTRACT
        /\ fn[p] \in Query => c.op \in {"Client", "queryContractSmart"}
        /\ (fn[p] \in Execute /\ c.op = "queryContractSmart") =>
             /\ fn[p] \in Finish
             /\ ~Truthy(args[p].swap)
             /\ DOMAIN c.msg = {"details"}

\* C13 witness: a Query wrapper, after building its client, has queried the
\* contract.
C13_Witness ==
  /\ fn["a"] \in Query
  /\ Len(calls["a"]) = 2
  /\ calls["a"][1].op = "Client"
  /\ calls["a"][2].op = "queryContractSmart"
  /\ calls["a"][2].contract = MARKETPLACE_CONTRACT


\* C14: every execute is sent from the first account the signer returned, to
\* MARKETPLACE_CONTRACT, with the client's fees, after a getAccounts call
\* that succeeded; once getAccounts has failed nothing is broadcast and the
\* wrapper returns an object with an `error` field.
C14_SenderAndOrder ==
  \A p \in Procs :
    /\ \A i \in CallsOf(p, "execute") :
         LET c == calls[p][i]
         IN  /\ accounts[p] # << >>
             /\ c.sender = accounts[p][1]
             /\ c.contract = MARKETPLACE_CONTRACT
             /\ c.fee = client[p].fees
             /\ \E j \in CallsOf(p, "getAccounts") : j < i /\ calls[p][j].ok
    /\ (\E j \in CallsOf(p, "getAccounts") : ~calls[p][j].ok) =>
         /\ CallsOf(p, "execute") = {}
         /\ pc[p] = "done"
         /\ result[p].kind = "returned"
         /\ "error" \in DOMAIN result[p].val.f

\* C14 witness: a broadcast made while the signer holds two accounts.
C14_Witness ==
  /\ CallsOf("a", "execute") # {}
  /\ accounts["a"] = <<"acct2", "acct1">>
  /\ Last(calls["a"]).sender = "acct2"


\* Everything that belongs to the invocation in slot p.
Slot(p) ==
  <<fn[p], args[p], pc[p], client[p], inner[p], swap[p], accounts[p], calls[p], result[p]>>

\* What invocation p has sent follows from its own arguments: each message
\* is the entry point built from p's arguments (for Finish* without a swap,
\* from the reply to p's own Details query, made before); each call goes
\* through the client p was passed or, if it was passed none, through one p
\* built itself, before the call.  An idle slot holds nothing.
OwnCalls(p) ==
  /\ \A i \in 1..Len(calls[p]) :
       LET c == calls[p][i]
           a == args[p]
       IN  /\ c.op = "queryContractSmart" =>
                c.msg = (IF fn[p] \in Finish THEN DetailsEntrypoint(a.id)
                         ELSE QueryEntrypoint(fn[p], a))
           /\ c.op = "execute" =>
                /\ c.msg = ExecuteEntrypoint(fn[p], a, swap[p], client[p])
                /\ fn[p] \in Finish =>
                     IF Truthy(a.swap) THEN swap[p] = a.swap
                     ELSE \E j \in CallsOf(p, "queryContractSmart") : j < i
           /\ c.op # "Client" =>
                IF Truthy(a.client)
                  THEN c.via = a.client.name /\ CallsOf(p, "Client") = {}
                  ELSE /\ c.via = KeplrClient.name
                       /\ \E j \in CallsOf(p, "Client") : j < i /\ calls[p][j].ok
  /\ pc[p] = "idle" =>
       Slot(p) = <<"none", NoFields, "idle", Null, Null, Undef, << >>, << >>, Pending>>

\* C15: under every interleaving of two invocations, what each one sends is
\* determined by its own arguments (and its own Details reply), and a step
\* of one invocation changes nothing of the other: no client, reply or
\* message is shared or kept across invocations.
C15_NoSharedState ==
  /\ [](\A p \in Procs : OwnCalls(p))
  /\ [][\A p \in Procs : \A q \in Procs \ {p} : Slot(p)' = Slot(p) \/ Slot(q)' = Slot(q)]_vars

\* C15 witness: two invocations in flight at once, one broadcasting through
\* a client it built, the other querying through the client it was passed.
C15_Witness ==
  /\ pc["a"] = "done" /\ pc["b"] = "done"
  /\ fn["a"] \in Execute /\ fn["b"] \in Query
  /\ calls["a"] # << >> /\ Last(calls["a"]).op = "execute" /\ Last(calls["a"]).via = "keplr"
  /\ calls["b"] # << >> /\ Last(calls["b"]).op = "queryContractSmart"
  /\ Last(calls["b"]).via = "supplied"

====
